---- MODULE Spec2Model ----
(***************************************************************************)
(* A model of patchy: the rolling hash (src/hash.rs) and the block         *)
(* fingerprinter, differ, patch builder, coalescer and applier             *)
(* (src/patchy.rs).  Byte buffers are sequences of integers 0..255; a      *)
(* 0-based half-open Rust slice s[b..e] is Slice(s, b, e).                 *)
(***************************************************************************)
EXTENDS Integers, Sequences, FiniteSets, TLC

VARIABLES
    pc,                  \* position of the modelled call sequence
    base,                \* base_data / input: the bytes the receiver has
    other,               \* other_data: the bytes to reconstruct
    block_size,          \* block_size parameter
    other_blocks,        \* compute_blocks(other, block_size)
    rolling_hash,        \* compute_diff: rolling_hash (also the hash under test)
    window_begin,        \* compute_diff: window_begin
    window_end,          \* compute_diff: window_end
    sequence,            \* compute_diff: sequence of matched strong hashes
    base_block_hash_map, \* compute_diff: strong hash -> base offset
    patch_commands,      \* PatchCommands returned by compute_diff
    patch,               \* Patch returned by build_patch / given to apply_patch
    result,              \* what apply_patch returned (NoBuffer: nothing)
    outcome,             \* how apply_patch ended: "none", "returned", "panicked"
    cmds_in,             \* coalescer under test: the list as given
    cmds_before,         \* coalescer under test: the list before the last pass
    cmds,                \* coalescer under test: the list after the last pass
    passes,              \* coalescer under test: number of passes run
    hash_prev,           \* rolling hash under test: state before the last call
    hash_x,              \* rolling hash under test: byte of the last call
    hash_op,             \* rolling hash under test: "new", "add" or "sub"
    hash_calls           \* rolling hash under test: number of calls made

vars == <<pc, base, other, block_size, other_blocks, rolling_hash, window_begin,
          window_end, sequence, base_block_hash_map, patch_commands, patch,
          result, outcome, cmds_in, cmds_before, cmds, passes, hash_prev, hash_x,
          hash_op, hash_calls>>

(***************************************************************************)
(* Bounds of the model and constants of the program.                       *)
(***************************************************************************)
MaxLen == 4
MaxBlockSize == 4
LongLen == 30
MaxCmds == 3
MaxApplyCmds == 1
MaxHashCalls == 3

TwoPow8 == 256
TwoPow16 == 65536
HashBias == 31

\* Byte values the inputs are drawn from: 250 + 31 wraps in u8, 97 + 31 does not.
Alphabet == {97, 250}
\* Byte values fed to the rolling hash under test: both sides of the u8 wrap.
HashBytes == {0, 97, 224, 225, 255}

Min(x, y) == IF x <= y THEN x ELSE y

Slice(s, b, e) == SubSeq(s, b + 1, e)

SeqsUpTo(S, n) == UNION {[1..k -> S] : k \in 0..n}

Zeros(n) == [i \in 1..n |-> 0]

(***************************************************************************)
(* src/hash.rs                                                             *)
(***************************************************************************)
RollingHash_new == [a |-> 0, b |-> 0, count |-> 0]

count(h) == h.count

\* u8::wrapping_add
wrapping_add_u8(x, y) == (x + y) % TwoPow8

\* The claimed add: the bias is added to the byte as an unbounded integer.
add_unreduced(h, x) ==
    LET a2 == (h.a + (x + HashBias)) % TwoPow16
    IN  [a |-> a2, b |-> (h.b + a2) % TwoPow16, count |-> h.count + 1]

add(h, x) ==
    LET a2 == (h.a + wrapping_add_u8(x, HashBias)) % TwoPow16
    IN  [a |-> a2, b |-> (h.b + a2) % TwoPow16, count |-> h.count + 1]

\* A sub that scales the removed byte by the count after the decrement.
sub_count_after(h, x) ==
    LET x2 == wrapping_add_u8(x, HashBias)
    IN  [a |-> (h.a - x2) % TwoPow16,
         b |-> (h.b - (((h.count - 1) * x2) % TwoPow16)) % TwoPow16,
         count |-> h.count - 1]

sub(h, x) ==
    LET x2 == wrapping_add_u8(x, HashBias)
    IN  [a |-> (h.a - x2) % TwoPow16,
         b |-> (h.b - ((h.count * x2) % TwoPow16)) % TwoPow16,
         count |-> h.count - 1]

\* (a as u32) | ((b as u32) << 16), as the two 16-bit halves of the u32: the
\* halves do not overlap, and the whole word exceeds the integers of TLC.
get(h) == [hi |-> h.b % TwoPow16, lo |-> h.a % TwoPow16]

RECURSIVE update(_, _)
update(h, input) ==
    IF input = <<>> THEN h ELSE update(add(h, Head(input)), Tail(input))

compute_hash_weak(input) == get(update(RollingHash_new, input))

\* The leading 128 bits of BLAKE3, taken as collision-free: the digest of a byte
\* range is a value that determines the range.
compute_hash_strong(input) == <<"blake3", input>>

(***************************************************************************)
(* src/patchy.rs: fingerprinter                                            *)
(***************************************************************************)
div_up(num, den) == (num + den - 1) \div den

compute_blocks(input, bs) ==
    [i \in 1..div_up(Len(input), bs) |->
        LET block_begin == (i - 1) * bs
            block_end == Min(block_begin + bs, Len(input))
            block_slice == Slice(input, block_begin, block_end)
        IN  [offset |-> block_begin,
             size |-> block_end - block_begin,
             hash_weak |-> compute_hash_weak(block_slice),
             hash_strong |-> compute_hash_strong(block_slice)]]

(***************************************************************************)
(* src/patchy.rs: commands                                                 *)
(***************************************************************************)
CopyCmd(s, t, n) == [source |-> s, target |-> t, size |-> n]

PatchCommands_new == [base |-> <<>>, other |-> <<>>]

RECURSIVE compute_copy_size(_)
compute_copy_size(cs) ==
    IF cs = <<>> THEN 0 ELSE Head(cs).size + compute_copy_size(Tail(cs))

PatchCommands_is_synchronized(p) == p.base = <<>> /\ p.other = <<>>

is_synchronized(seq, blocks) ==
    /\ Len(seq) = Len(blocks)
    /\ \A i \in 1..Len(seq) : seq[i] = blocks[i].hash_strong

(***************************************************************************)
(* src/patchy.rs: compute_diff                                             *)
(***************************************************************************)
other_block_weak_set(blocks) == {blocks[i].hash_weak : i \in 1..Len(blocks)}

other_block_strong_set(blocks) == {blocks[i].hash_strong : i \in 1..Len(blocks)}

RECURSIVE other_len(_)
other_len(blocks) ==
    IF blocks = <<>> THEN 0 ELSE Head(blocks).size + other_len(Tail(blocks))

\* Option<Block>: <<>> is None, <<block>> is Some(block).
find_base_block(input, blocks, block_begin, block_end, block_hash_weak) ==
    IF block_hash_weak \in other_block_weak_set(blocks)
    THEN LET block_hash_strong == compute_hash_strong(Slice(input, block_begin, block_end))
         IN  IF block_hash_strong \in other_block_strong_set(blocks)
             THEN <<[offset |-> block_begin,
                     size |-> block_end - block_begin,
                     hash_weak |-> block_hash_weak,
                     hash_strong |-> block_hash_strong]>>
             ELSE <<>>
    ELSE <<>>

\* while rolling_hash.count() < this_window_size { add(input[window_end]); window_end += 1 }
RECURSIVE grow_window(_, _, _, _)
grow_window(input, h, w_end, this_window_size) ==
    IF count(h) < this_window_size
    THEN grow_window(input, add(h, input[w_end + 1]), w_end + 1, this_window_size)
    ELSE [hash |-> h, window_end |-> w_end]

HashMap_insert(m, k, v) ==
    [h \in DOMAIN m \cup {k} |-> IF h = k THEN v ELSE m[h]]

\* The emission loop over other_blocks, in order.
RECURSIVE emit_commands(_, _, _)
emit_commands(blocks, map, acc) ==
    IF blocks = <<>> THEN acc
    ELSE LET other_block == Head(blocks)
         IN  IF other_block.hash_strong \in DOMAIN map
             THEN emit_commands(Tail(blocks), map,
                    [acc EXCEPT !.base = Append(@,
                        CopyCmd(map[other_block.hash_strong], other_block.offset,
                                other_block.size))])
             ELSE emit_commands(Tail(blocks), map,
                    [acc EXCEPT !.other = Append(@,
                        CopyCmd(other_block.offset, other_block.offset,
                                other_block.size))])

\* A differ that emits the commands also when base and other are synchronized.
diff_result_always_emit(input, blocks, seq, map) ==
    emit_commands(blocks, map, PatchCommands_new)

\* The tail of compute_diff: the synchronization check and the emission.
diff_result(input, blocks, seq, map) ==
    IF Len(input) # other_len(blocks) \/ ~is_synchronized(seq, blocks)
    THEN emit_commands(blocks, map, PatchCommands_new)
    ELSE PatchCommands_new

(***************************************************************************)
(* src/patchy.rs: optimize_copy_cmds, build_patch, apply_patch             *)
(***************************************************************************)
\* Vec::sort_by_key(|v| v.target): a stable sort.
RECURSIVE insert_by_target(_, _)
insert_by_target(sorted, c) ==
    IF sorted = <<>> THEN <<c>>
    ELSE IF sorted[Len(sorted)].target <= c.target THEN Append(sorted, c)
    ELSE Append(insert_by_target(SubSeq(sorted, 1, Len(sorted) - 1), c),
                sorted[Len(sorted)])

RECURSIVE sort_by_target(_)
sort_by_target(cs) ==
    IF cs = <<>> THEN <<>>
    ELSE insert_by_target(sort_by_target(SubSeq(cs, 1, Len(cs) - 1)), cs[Len(cs)])

\* n <= u32::max_value(), that is n < 2^32, stated on the upper half of n.
fits_u32(n) == n \div TwoPow16 < TwoPow16

\* A merge that forgets to add the absorbed command's size.
merge_keep_size(prev, curr) ==
    [source |-> prev.source, target |-> prev.target, size |-> curr.size]

\* A merge that leaves curr.source as it was.
merge_keep_source(prev, curr) ==
    [source |-> curr.source, target |-> prev.target, size |-> curr.size + prev.size]

\* curr absorbs prev.
merge(prev, curr) ==
    [source |-> prev.source, target |-> prev.target, size |-> curr.size + prev.size]

\* The walk over the sorted list; cs[i - 1] is prev and cs[i] is curr.
RECURSIVE coalesce_walk(_, _)
coalesce_walk(cs, i) ==
    IF i > Len(cs) THEN cs
    ELSE LET prev == cs[i - 1]
             curr == cs[i]
         IN  IF /\ prev.source + prev.size = curr.source
                /\ prev.target + prev.size = curr.target
                /\ fits_u32(prev.size + curr.size)
             THEN coalesce_walk([cs EXCEPT ![i] = merge(prev, curr),
                                           ![i - 1].size = 0], i + 1)
             ELSE coalesce_walk(cs, i + 1)

retain_nonzero(cs) == SelectSeq(cs, LAMBDA c : c.size # 0)

optimize_copy_cmds(cs) ==
    IF Len(cs) > 1 THEN retain_nonzero(coalesce_walk(sort_by_target(cs), 2)) ELSE cs

\* The loop of build_patch over patch_commands.other.
RECURSIVE build_residuals(_, _, _)
build_residuals(other_data, cs, acc) ==
    IF cs = <<>> THEN acc
    ELSE LET cmd == Head(cs)
             patch_copy_cmd == CopyCmd(Len(acc.data), cmd.target, cmd.size)
             slice == Slice(other_data, cmd.source, cmd.source + cmd.size)
         IN  build_residuals(other_data, Tail(cs),
                [data |-> acc.data \o slice, other |-> Append(acc.other, patch_copy_cmd)])

build_patch(other_data, p) ==
    LET r == build_residuals(other_data, p.other, [data |-> <<>>, other |-> <<>>])
    IN  [data |-> r.data,
         base |-> optimize_copy_cmds(p.base),
         other |-> optimize_copy_cmds(r.other),
         other_size |-> Len(other_data)]

\* The value of result when apply_patch returned nothing.
NoBuffer == <<"no buffer">>

\* The slice indexing of CopyCmd::execute panics when a range leaves its buffer.
execute_panics(cmd, target, source) ==
    \/ cmd.source + cmd.size > Len(source)
    \/ cmd.target + cmd.size > Len(target)

\* An execute that clamps the copy to the buffers instead of panicking.
execute_clamped(cmd, target, source) ==
    [panicked |-> FALSE,
     buf |-> [i \in 1..Len(target) |->
                IF /\ cmd.target < i
                   /\ i <= cmd.target + cmd.size
                   /\ cmd.source + (i - cmd.target) <= Len(source)
                THEN source[cmd.source + (i - cmd.target)]
                ELSE target[i]]]

\* CopyCmd::execute: the buffer after the copy, or a panic that leaves it as it was.
execute(cmd, target, source) ==
    IF execute_panics(cmd, target, source)
    THEN [panicked |-> TRUE, buf |-> target]
    ELSE [panicked |-> FALSE,
          buf |-> [i \in 1..Len(target) |->
                     IF cmd.target < i /\ i <= cmd.target + cmd.size
                     THEN source[cmd.source + (i - cmd.target)]
                     ELSE target[i]]]

\* for cmd in cs { cmd.execute(&mut buf, source) }, stopping at the first panic.
RECURSIVE execute_all(_, _, _)
execute_all(cs, buf, source) ==
    IF cs = <<>> THEN [panicked |-> FALSE, buf |-> buf]
    ELSE LET r == execute(Head(cs), buf, source)
         IN  IF r.panicked THEN r ELSE execute_all(Tail(cs), r.buf, source)

\* apply_patch: a panic unwinds and drops the local buffer; nothing is returned.
apply_patch(base_data, p) ==
    LET r1 == execute_all(p.base, Zeros(p.other_size), base_data)
        r2 == IF r1.panicked THEN r1 ELSE execute_all(p.other, r1.buf, p.data)
    IN  IF r2.panicked
        THEN [outcome |-> "panicked", result |-> NoBuffer, partial |-> r2.buf]
        ELSE [outcome |-> "returned", result |-> r2.buf, partial |-> r2.buf]

(***************************************************************************)
(* The sender and the receiver: compute_blocks, compute_diff, build_patch, *)
(* apply_patch on every pair of small inputs, and on one long pair whose   *)
(* windows make the 16-bit accumulators wrap.                              *)
(***************************************************************************)
NoPatch == [data |-> <<>>, base |-> <<>>, other |-> <<>>, other_size |-> 0]

DiffIdle ==
    /\ other_blocks = <<>>
    /\ rolling_hash = RollingHash_new
    /\ window_begin = 0
    /\ window_end = 0
    /\ sequence = <<>>
    /\ base_block_hash_map = <<>>
    /\ patch_commands = PatchCommands_new

CoalesceIdle ==
    /\ cmds_in = <<>>
    /\ cmds_before = <<>>
    /\ cmds = <<>>
    /\ passes = 0

HashIdle ==
    /\ hash_prev = RollingHash_new
    /\ hash_x = 0
    /\ hash_op = "new"
    /\ hash_calls = 0

\* 224 + 31 = 255: the largest biased byte; 225 + 31 wraps to 0.
LongBase == [i \in 1..LongLen |-> 224]
LongOther == [i \in 1..LongLen |-> 225]

Init ==
    /\ pc = "fingerprint"
    /\ \/ /\ base \in SeqsUpTo(Alphabet, MaxLen)
          /\ other \in SeqsUpTo(Alphabet, MaxLen)
          /\ block_size \in 1..MaxBlockSize
       \/ /\ base = LongBase
          /\ other = LongOther
          /\ block_size = LongLen - 1
    /\ DiffIdle
    /\ patch = NoPatch
    /\ result = NoBuffer
    /\ outcome = "none"
    /\ CoalesceIdle
    /\ HashIdle

\* compute_blocks(other, block_size), then compute_diff up to the top of its loop.
Fingerprint ==
    /\ pc = "fingerprint"
    /\ other_blocks' = compute_blocks(other, block_size)
    /\ rolling_hash' = RollingHash_new
    /\ window_begin' = 0
    /\ window_end' = 0
    /\ sequence' = <<>>
    /\ base_block_hash_map' = <<>>
    /\ pc' = "loop"
    /\ UNCHANGED <<base, other, block_size, patch_commands, patch, result, outcome,
                   cmds_in, cmds_before, cmds, passes, hash_prev, hash_x, hash_op,
                   hash_calls>>

remaining_len == Len(base) - window_begin

this_window_size == Min(remaining_len, block_size)

grown == grow_window(base, rolling_hash, window_end, this_window_size)

probe == find_base_block(base, other_blocks, window_begin, grown.window_end,
                         get(grown.hash))

\* One iteration of the loop that ends in Some(base_block).
DiffMatch ==
    /\ pc = "loop"
    /\ remaining_len # 0
    /\ probe # <<>>
    /\ window_begin' = grown.window_end
    /\ window_end' = grown.window_end
    /\ rolling_hash' = RollingHash_new
    /\ base_block_hash_map' =
           HashMap_insert(base_block_hash_map, probe[1].hash_strong, probe[1].offset)
    /\ sequence' = Append(sequence, probe[1].hash_strong)
    /\ UNCHANGED <<pc, base, other, block_size, other_blocks, patch_commands, patch,
                   result, outcome, cmds_in, cmds_before, cmds, passes, hash_prev,
                   hash_x, hash_op, hash_calls>>

\* One iteration of the loop that ends in None.
DiffMiss ==
    /\ pc = "loop"
    /\ remaining_len # 0
    /\ probe = <<>>
    /\ rolling_hash' = sub(grown.hash, base[window_begin + 1])
    /\ window_begin' = window_begin + 1
    /\ window_end' = grown.window_end
    /\ UNCHANGED <<pc, base, other, block_size, other_blocks, sequence,
                   base_block_hash_map, patch_commands, patch, result, outcome,
                   cmds_in, cmds_before, cmds, passes, hash_prev, hash_x, hash_op,
                   hash_calls>>

\* The break of the loop, the synchronization check and the emission.
DiffFinish ==
    /\ pc = "loop"
    /\ remaining_len = 0
    /\ patch_commands' = diff_result(base, other_blocks, sequence, base_block_hash_map)
    /\ pc' = "build"
    /\ UNCHANGED <<base, other, block_size, other_blocks, rolling_hash, window_begin,
                   window_end, sequence, base_block_hash_map, patch, result, outcome,
                   cmds_in, cmds_before, cmds, passes, hash_prev, hash_x, hash_op,
                   hash_calls>>

BuildPatch ==
    /\ pc = "build"
    /\ patch' = build_patch(other, patch_commands)
    /\ pc' = "apply"
    /\ UNCHANGED <<base, other, block_size, other_blocks, rolling_hash, window_begin,
                   window_end, sequence, base_block_hash_map, patch_commands, result,
                   outcome, cmds_in, cmds_before, cmds, passes, hash_prev, hash_x,
                   hash_op, hash_calls>>

ApplyPatch ==
    /\ pc = "apply"
    /\ result' = apply_patch(base, patch).result
    /\ outcome' = apply_patch(base, patch).outcome
    /\ pc' = "done"
    /\ UNCHANGED <<base, other, block_size, other_blocks, rolling_hash, window_begin,
                   window_end, sequence, base_block_hash_map, patch_commands, patch,
                   cmds_in, cmds_before, cmds, passes, hash_prev, hash_x, hash_op,
                   hash_calls>>

Next ==
    \/ Fingerprint
    \/ DiffMatch
    \/ DiffMiss
    \/ DiffFinish
    \/ BuildPatch
    \/ ApplyPatch

Spec == Init /\ [][Next]_vars

(***************************************************************************)
(* optimize_copy_cmds on its own: two passes over every short list of      *)
(* commands, zero sizes and overlapping ranges included.                   *)
(***************************************************************************)
CoalesceCmds == {CopyCmd(s, t, n) : s \in 0..2, t \in 0..2, n \in 0..2}

PipelineIdle ==
    /\ base = <<>>
    /\ other = <<>>
    /\ block_size = 1
    /\ DiffIdle
    /\ patch = NoPatch
    /\ result = NoBuffer
    /\ outcome = "none"

InitCoalesce ==
    /\ pc = "coalesce"
    /\ cmds_in \in SeqsUpTo(CoalesceCmds, MaxCmds)
    /\ cmds_before = cmds_in
    /\ cmds = cmds_in
    /\ passes = 0
    /\ PipelineIdle
    /\ HashIdle

Optimize ==
    /\ pc = "coalesce"
    /\ passes < 2
    /\ cmds_before' = cmds
    /\ cmds' = optimize_copy_cmds(cmds)
    /\ passes' = passes + 1
    /\ UNCHANGED <<pc, base, other, block_size, other_blocks, rolling_hash,
                   window_begin, window_end, sequence, base_block_hash_map,
                   patch_commands, patch, result, outcome, cmds_in, hash_prev,
                   hash_x, hash_op, hash_calls>>

NextCoalesce == Optimize

SpecCoalesce == InitCoalesce /\ [][NextCoalesce]_vars

(***************************************************************************)
(* apply_patch on its own: every small patch a receiver may be handed,     *)
(* well-formed or not.                                                     *)
(***************************************************************************)
ApplyCmds == {CopyCmd(s, t, n) : s \in 0..1, t \in 0..1, n \in 0..2}

Prefixes(s) == {SubSeq(s, 1, k) : k \in 0..Len(s)}

InitApply ==
    /\ pc = "apply"
    /\ base \in Prefixes(<<11, 22>>)
    /\ \E data \in Prefixes(<<33, 44>>), bs \in SeqsUpTo(ApplyCmds, MaxApplyCmds),
          os \in SeqsUpTo(ApplyCmds, MaxApplyCmds), n \in 0..2 :
          patch = [data |-> data, base |-> bs, other |-> os, other_size |-> n]
    /\ other = <<>>
    /\ block_size = 1
    /\ DiffIdle
    /\ result = NoBuffer
    /\ outcome = "none"
    /\ CoalesceIdle
    /\ HashIdle

NextApply == ApplyPatch

SpecApply == InitApply /\ [][NextApply]_vars

(***************************************************************************)
(* RollingHash on its own: add and sub of any byte, from a fresh state.    *)
(***************************************************************************)
InitHash ==
    /\ pc = "hash"
    /\ PipelineIdle
    /\ CoalesceIdle
    /\ HashIdle

HashAdd ==
    /\ pc = "hash"
    /\ hash_calls < MaxHashCalls
    /\ \E x \in HashBytes :
          /\ rolling_hash' = add(rolling_hash, x)
          /\ hash_x' = x
    /\ hash_prev' = rolling_hash
    /\ hash_op' = "add"
    /\ hash_calls' = hash_calls + 1
    /\ UNCHANGED <<pc, base, other, block_size, other_blocks, window_begin,
                   window_end, sequence, base_block_hash_map, patch_commands, patch,
                   result, outcome, cmds_in, cmds_before, cmds, passes>>

\* count -= 1 on a usize: sub is called only on a hash that holds a byte.
HashSub ==
    /\ pc = "hash"
    /\ hash_calls < MaxHashCalls
    /\ count(rolling_hash) > 0
    /\ \E x \in HashBytes :
          /\ rolling_hash' = sub(rolling_hash, x)
          /\ hash_x' = x
    /\ hash_prev' = rolling_hash
    /\ hash_op' = "sub"
    /\ hash_calls' = hash_calls + 1
    /\ UNCHANGED <<pc, base, other, block_size, other_blocks, window_begin,
                   window_end, sequence, base_block_hash_map, patch_commands, patch,
                   result, outcome, cmds_in, cmds_before, cmds, passes>>

NextHash ==
    \/ HashAdd
    \/ HashSub

SpecHash == InitHash /\ [][NextHash]_vars

(***************************************************************************)
(* Properties.                                                             *)
(***************************************************************************)
Returned == pc \in {"build", "apply", "done"}

Built == pc \in {"apply", "done"}

\* The commands of cs whose target range [target, target + size) holds position p.
Covering(cs, p) ==
    {i \in 1..Len(cs) : cs[i].target <= p /\ p < cs[i].target + cs[i].size}

Tiles(cs, n) ==
    /\ \A p \in 0..(n - 1) : Cardinality(Covering(cs, p)) = 1
    /\ \A i \in 1..Len(cs) : cs[i].target >= 0 /\ cs[i].target + cs[i].size <= n

\* C1: applying the patch built from the diff of base against other's blocks
\* returns other, byte for byte.
C1_RoundTrip ==
    pc = "done" => outcome = "returned" /\ result = other

\* The round trip does hold whenever the two inputs differ.
RoundTripWhenDifferent ==
    pc = "done" /\ base # other => outcome = "returned" /\ result = other

\* C2: the target ranges of the commands of patch.base and patch.other partition
\* [0, other_size): each position is covered by exactly one command, nothing
\* lies outside.
C2_Tiling ==
    Built => Tiles(patch.base \o patch.other, patch.other_size)

\* The tiling does hold whenever the two inputs differ.
TilingWhenDifferent ==
    Built /\ base # other => Tiles(patch.base \o patch.other, patch.other_size)

\* C3: when compute_diff returns a synchronized PatchCommands (both lists
\* empty), other is bytewise identical to base.
C3_SynchronizedMeansIdentical ==
    Returned /\ PatchCommands_is_synchronized(patch_commands) => other = base

\* What the empty result does tell: other is base, or other is empty.
SynchronizedMeansIdenticalOrEmpty ==
    Returned /\ PatchCommands_is_synchronized(patch_commands)
        => other = base \/ other = <<>>

\* C4: with base = other, compute_diff returns two empty lists, build_patch
\* yields empty data, empty lists and other_size = |other|, and apply_patch
\* returns |other| zero bytes.
C4_SelfSynchronization ==
    base = other =>
        /\ Returned => patch_commands.base = <<>> /\ patch_commands.other = <<>>
        /\ Built => /\ patch.data = <<>>
                    /\ patch.base = <<>>
                    /\ patch.other = <<>>
                    /\ patch.other_size = Len(other)
        /\ pc = "done" => /\ outcome = "returned"
                          /\ Len(result) = Len(other)
                          /\ \A i \in 1..Len(result) : result[i] = 0

\* Identical inputs of several blocks, the last one short, went through the
\* whole pipeline and came back as zeros.
C4_Witness ==
    /\ pc = "done"
    /\ base = other
    /\ Len(other_blocks) >= 2
    /\ other_blocks[Len(other_blocks)].size < block_size
    /\ result = Zeros(Len(other))

\* C9: |patch.data| <= |other|, and |patch.data| is the sum of the sizes of the
\* commands of patch.other after coalescing.
C9_ResidualMonotonicity ==
    Built =>
        /\ Len(patch.data) <= Len(other)
        /\ Len(patch.data) = compute_copy_size(patch.other)

\* A patch with base copies and residuals, whose residual commands were coalesced.
C9_Witness ==
    /\ pc = "apply"
    /\ patch.base # <<>>
    /\ patch.other # <<>>
    /\ Len(patch.other) < Len(patch_commands.other)

\* C10: at the top of every iteration of the loop of compute_diff,
\* window_begin <= window_end <= |base|, the count of the rolling hash is
\* window_end - window_begin, and its (a, b) is that of a fresh RollingHash fed
\* base[window_begin .. window_end].
C10_WindowInvariant ==
    pc = "loop" =>
        LET fresh == update(RollingHash_new, Slice(base, window_begin, window_end))
        IN  /\ window_begin <= window_end
            /\ window_end <= Len(base)
            /\ count(rolling_hash) = window_end - window_begin
            /\ rolling_hash.a = fresh.a
            /\ rolling_hash.b = fresh.b

\* The top of an iteration after a match and, later, a miss that left bytes in
\* the window.
C10_Witness ==
    /\ pc = "loop"
    /\ sequence # <<>>
    /\ window_begin < window_end
    /\ count(rolling_hash) >= 1

\* The top of an iteration after a miss on a window of n bytes of biased value
\* 255, long enough for the sum b = 255 * n * (n + 1) / 2 to have passed 2^16.
WindowWrapped ==
    /\ pc = "loop"
    /\ base = LongBase
    /\ window_begin >= 1
    /\ count(rolling_hash) * (count(rolling_hash) + 1) * 255 >= 2 * TwoPow16

\* Source buffers and output lengths the coalesced lists are run against; the
\* bytes of the first buffer are all different, so that a byte copied from
\* another place shows.
CoalesceSources == {<<11, 22, 33, 44>>, <<11, 22, 33>>, <<7, 7, 7, 7>>}

InBounds(cs, source, n) ==
    \A i \in 1..Len(cs) :
        /\ cs[i].source + cs[i].size <= Len(source)
        /\ cs[i].target + cs[i].size <= n

\* Executing pre in order and executing post in order, each into n zero bytes,
\* give the same bytes, for every buffer and n that keep pre in bounds.
SameBytes(pre, post) ==
    \A source \in CoalesceSources, n \in 0..4 :
        InBounds(pre, source, n) =>
            /\ ~execute_all(post, Zeros(n), source).panicked
            /\ execute_all(post, Zeros(n), source).buf
                   = execute_all(pre, Zeros(n), source).buf

\* No byte position is the target of two commands.
DisjointTargets(cs) ==
    \A i, j \in 1..Len(cs) :
        i < j => \/ cs[i].size = 0
                 \/ cs[j].size = 0
                 \/ cs[i].target + cs[i].size <= cs[j].target
                 \/ cs[j].target + cs[j].size <= cs[i].target

NonZeroSizes(cs) == \A i \in 1..Len(cs) : cs[i].size # 0

\* C5: a second run of optimize_copy_cmds on the result of a first run leaves
\* the list unchanged, for any list of commands, zero sizes included.
C5_CoalesceIdempotent ==
    passes = 2 => cmds = cmds_before

\* The second run does change nothing when no command of the list is empty.
CoalesceIdempotentNonZero ==
    passes = 2 /\ NonZeroSizes(cmds_in) => cmds = cmds_before

\* C6 as claimed: for any list whose ranges are in bounds, the commands executed
\* in order into a zero-filled buffer give the same bytes before and after
\* optimize_copy_cmds.
C6_CoalescePreservesBytes ==
    passes = 1 => SameBytes(cmds_in, cmds)

\* C6 as amended: the same, for lists whose target ranges do not overlap.
C6_CoalescePreservesBytesDisjoint ==
    passes = 1 /\ DisjointTargets(cmds_in) => SameBytes(cmds_in, cmds)

\* A list of three non-empty commands with disjoint targets, given out of target
\* order, that one pass sorted and merged into fewer commands.
C6_Witness ==
    /\ passes = 1
    /\ Len(cmds_in) = 3
    /\ NonZeroSizes(cmds_in)
    /\ DisjointTargets(cmds_in)
    /\ cmds_in[1].target > cmds_in[2].target
    /\ Len(cmds) < Len(cmds_in)
    /\ InBounds(cmds_in, <<11, 22, 33, 44>>, 4)

\* The conditions a conformant apply_patch must reject.
Malformed(base_data, p) ==
    \/ \E i \in 1..Len(p.base) : p.base[i].target + p.base[i].size > p.other_size
    \/ \E i \in 1..Len(p.other) : p.other[i].target + p.other[i].size > p.other_size
    \/ \E i \in 1..Len(p.base) : p.base[i].source + p.base[i].size > Len(base_data)
    \/ \E i \in 1..Len(p.other) : p.other[i].source + p.other[i].size > Len(p.data)

C8_AddUnreducedBias ==
    hash_op = "add" =>
        /\ rolling_hash.a = (hash_prev.a + (hash_x + HashBias)) % TwoPow16
        /\ rolling_hash.b = (hash_prev.b + rolling_hash.a) % TwoPow16
        /\ rolling_hash.count = hash_prev.count + 1
        /\ get(rolling_hash) = [hi |-> rolling_hash.b, lo |-> rolling_hash.a]

\* C8 as amended: the same, with x + 31 reduced modulo 2^8 before it is widened
\* to 16 bits.
C8_AddReducedBias ==
    hash_op = "add" =>
        /\ rolling_hash.a = (hash_prev.a + ((hash_x + HashBias) % TwoPow8)) % TwoPow16
        /\ rolling_hash.b = (hash_prev.b + rolling_hash.a) % TwoPow16
        /\ rolling_hash.count = hash_prev.count + 1
        /\ get(rolling_hash) = [hi |-> rolling_hash.b, lo |-> rolling_hash.a]

\* An add of a byte whose biased value wraps in 8 bits, onto an a that then wraps
\* in 16 bits.
C8_Witness ==
    /\ hash_op = "add"
    /\ hash_x + HashBias >= TwoPow8
    /\ hash_prev.a + ((hash_x + HashBias) % TwoPow8) >= TwoPow16
    /\ rolling_hash.a < hash_prev.a

====
